---- MODULE Spec2Model ----
(***************************************************************************)
(* PlaylistCreator: the playlist conversion service                        *)
(* (PlaylistConversionService), its compatibility analyzer and its song    *)
(* matcher, with the collaborators it calls: PlaylistService, MusicService,*)
(* the playlistConversion table and the external platform.                 *)
(*                                                                         *)
(* JavaScript values are modelled as follows.                              *)
(*  - a string is a sequence of one-character strings;                     *)
(*  - an object is a record; a property the object does not have reads as  *)
(*    undefined: Get(obj, f) is <<>> for undefined and <<v>> for a value;  *)
(*  - an average or a rate is a quotient [num, den] of integers, den = 0   *)
(*    being NaN (the only quotient with den = 0 the code forms is 0/0);    *)
(*  - a similarity or a confidence is an IEEE 754 double, computed with    *)
(*    the rounding of every operation (0.4 + 0.3 + 0.2 is not 0.9);        *)
(*  - a call that may throw returns a record with a field threw.           *)
(*                                                                         *)
(* The external platforms are reached through IPlatformService; what a     *)
(* platform answers is the environment's choice: a search answers from a   *)
(* fixed catalog, a createPlaylist, addTracksToPlaylist or refreshToken    *)
(* call succeeds or fails. An insert into the conversion table, and the    *)
(* creation of the local playlist, may be rejected as well.                *)
(*                                                                         *)
(* Besides the conversion (Spec, SpecCancel), the preview and analysis     *)
(* (SpecPreview) and the matcher's functions (SpecMatcher), the module     *)
(* covers SmartRecommendationsService.generateRecommendations              *)
(* (SpecRecommendations) and MusicService.findSimilarSongs and             *)
(* addSongToDatabase over the song table (SpecSimilar, SpecSongs).         *)
(***************************************************************************)
EXTENDS Integers, Sequences, FiniteSets, TLC

\* ------------------------------------------------------------------ bounds

\* Calls of convertPlaylist / previewConversion made in one behaviour.
MaxCalls == 2

\* Longest playlist the initial states draw.
MaxSongs == 2

\* Longest string calculateStringSimilarity is applied to on its own.
MaxLen == 4

\* ------------------------------------------------------- JavaScript values

Min2(a, b) == IF a < b THEN a ELSE b

Max2(a, b) == IF a > b THEN a ELSE b

Abs(a) == IF a < 0 THEN -a ELSE a

\* obj.f : <<>> when the object has no such property.
Get(obj, f) == IF f \in DOMAIN obj THEN <<obj[f]>> ELSE <<>>

\* The value of a block of code after its const declarations: in
\* Only({block : c \in {e}}) the declared expression e is evaluated once and the
\* block sees its value as c.
Only(values) == CHOOSE value \in values : TRUE

UndefinedStr == <<"u", "n", "d", "e", "f", "i", "n", "e", "d">>

\* `${x}` in a template literal.
TemplateStr(opt) == IF opt = <<>> THEN UndefinedStr ELSE opt[1]

LowerChar(c) ==
  CASE c = "A" -> "a"
    [] c = "B" -> "b"
    [] c = "C" -> "c"
    [] c = "X" -> "x"
    [] c = "Y" -> "y"
    [] OTHER -> c

\* String.prototype.toLowerCase
ToLowerCase(s) == [i \in 1..Len(s) |-> LowerChar(s[i])]

\* s.trim().length === 0
IsBlank(s) == \A i \in 1..Len(s) : s[i] = " "

\* String.prototype.includes
Includes(s, sub) ==
  \E k \in 0..(Len(s) - Len(sub)) : \A i \in 1..Len(sub) : s[k + i] = sub[i]

\* A quotient num/den of non-negative integers, as the code computes it in
\* floating point; 0/0 is NaN.
Quot(n, d) == [num |-> n, den |-> d]

IsNaN(q) == q.den = 0

\* n1/d1 < n2/d2, by integer parts and remainders.
RECURSIVE FracLess(_, _, _, _)
FracLess(n1, d1, n2, d2) ==
  LET q1 == n1 \div d1
      q2 == n2 \div d2
      r1 == n1 % d1
      r2 == n2 % d2
  IN  IF q1 # q2 THEN q1 < q2
      ELSE IF r2 = 0 THEN FALSE
      ELSE IF r1 = 0 THEN TRUE
      ELSE FracLess(d2, r2, d1, r1)

\* a < b on numbers: false when either is NaN.
Lt(a, b) == ~IsNaN(a) /\ ~IsNaN(b) /\ FracLess(a.num, a.den, b.num, b.den)

\* a > b on numbers: false when either is NaN.
Gt(a, b) == Lt(b, a)

\* ------------------------------------------------- double-precision numbers

\* The numbers of the match confidence are IEEE 754 doubles. A double that is
\* not NaN is kept exactly, as the integer value * 2^90 written in limbs of 15
\* bits, least significant first; every operation computes the exact result
\* and rounds it to 53 significant bits, to nearest, ties to even.
LimbBits == 15

LimbBase == 32768

\* Limbs of the fraction (6 * 15 = 90 bits) and of a whole number.
FractionLimbs == 6

NumberLimbs == 7

SignificandBits == 53

RECURSIVE Pow2(_)
Pow2(n) == IF n = 0 THEN 1 ELSE 2 * Pow2(n - 1)

Limb(N, i) == IF i <= Len(N) THEN N[i] ELSE 0

\* N as a sequence of w limbs.
Fit(N, w) == [j \in 1..w |-> Limb(N, j)]

BigAdd(a, b) ==
  LET n == (IF Len(a) > Len(b) THEN Len(a) ELSE Len(b)) + 1
      RECURSIVE AddFrom(_, _, _)
      AddFrom(i, carry, acc) ==
        IF i > n THEN acc
        ELSE LET s == Limb(a, i) + Limb(b, i) + carry
             IN  AddFrom(i + 1, s \div LimbBase, Append(acc, s % LimbBase))
  IN  AddFrom(1, 0, <<>>)

\* a - b for a >= b.
BigSub(a, b) ==
  LET RECURSIVE SubFrom(_, _, _)
      SubFrom(i, borrow, acc) ==
        IF i > Len(a) THEN acc
        ELSE LET s == Limb(a, i) - Limb(b, i) - borrow
             IN  IF s < 0 THEN SubFrom(i + 1, 1, Append(acc, s + LimbBase))
                 ELSE SubFrom(i + 1, 0, Append(acc, s))
  IN  SubFrom(1, 0, <<>>)

\* a * k * LimbBase^shift for one limb k.
BigMulLimb(a, k, shift) ==
  LET RECURSIVE MulFrom(_, _, _)
      MulFrom(i, carry, acc) ==
        IF i > Len(a) THEN Append(acc, carry)
        ELSE LET p == a[i] * k + carry
             IN  MulFrom(i + 1, p \div LimbBase, Append(acc, p % LimbBase))
  IN  MulFrom(1, 0, [j \in 1..shift |-> 0])

BigMul(a, b) ==
  LET RECURSIVE Rows(_, _)
      Rows(j, acc) ==
        IF j > Len(b) THEN acc
        ELSE Rows(j + 1, BigAdd(acc, BigMulLimb(a, b[j], j - 1)))
  IN  Rows(1, <<>>)

\* Quotient and remainder of N by a divisor below LimbBase.
BigDivSmall(N, d) ==
  LET RECURSIVE DivFrom(_, _, _)
      DivFrom(i, rem, acc) ==
        IF i = 0 THEN [quotient |-> acc, remainder |-> rem]
        ELSE LET cur == rem * LimbBase + N[i]
             IN  DivFrom(i - 1, cur % d, <<cur \div d>> \o acc)
  IN  DivFrom(Len(N), 0, <<>>)

\* a < b
BigLess(a, b) ==
  LET n == IF Len(a) > Len(b) THEN Len(a) ELSE Len(b)
  IN  \E i \in 1..n :
        /\ Limb(a, i) < Limb(b, i)
        /\ \A j \in (i + 1)..n : Limb(a, j) = Limb(b, j)

RECURSIVE LimbLen(_)
LimbLen(x) == IF x = 0 THEN 0 ELSE 1 + LimbLen(x \div 2)

\* The number of bits of N.
BitLen(N) ==
  LET used == {i \in 1..Len(N) : N[i] # 0}
  IN  IF used = {} THEN 0
      ELSE LET top == CHOOSE i \in used : \A j \in used : j <= i
           IN  LimbBits * (top - 1) + LimbLen(N[top])

Bit(N, i) == (Limb(N, i \div LimbBits + 1) \div Pow2(i % LimbBits)) % 2

\* The bits of N below bit s are all zero.
LowZero(N, s) ==
  /\ \A j \in 1..(s \div LimbBits) : Limb(N, j) = 0
  /\ Limb(N, s \div LimbBits + 1) % Pow2(s % LimbBits) = 0

\* N with the bits below bit s cleared.
ClearLow(N, s) ==
  [j \in 1..Len(N) |->
     IF j <= s \div LimbBits THEN 0
     ELSE IF j = s \div LimbBits + 1
     THEN (N[j] \div Pow2(s % LimbBits)) * Pow2(s % LimbBits)
     ELSE N[j]]

\* 2^s
Unit(s) ==
  [j \in 1..(s \div LimbBits + 1) |-> IF j = s \div LimbBits + 1 THEN Pow2(s % LimbBits) ELSE 0]

\* N rounded to 53 significant bits, to nearest, ties to even.
RoundNearestEven(N) ==
  LET s == BitLen(N) - SignificandBits
  IN  IF s <= 0 THEN N
      ELSE IF Bit(N, s - 1) = 1 /\ (~LowZero(N, s - 1) \/ Bit(N, s) = 1)
      THEN BigAdd(ClearLow(N, s), Unit(s))
      ELSE ClearLow(N, s)

\* A number: NaN, or the limbs of a non-negative double.
Number(limbs) == [nan |-> FALSE, bits |-> Fit(limbs, NumberLimbs)]

NaN == [nan |-> TRUE, bits |-> Fit(<<>>, NumberLimbs)]

\* The integer n (below LimbBase) as a number.
Whole(n) == Number([j \in 1..NumberLimbs |-> IF j = NumberLimbs THEN n ELSE 0])

\* n / d for integers 0 <= n < LimbBase and 0 < d < LimbBase.
Divide(n, d) ==
  LET r == BigDivSmall([j \in 1..(NumberLimbs + 1) |-> IF j = NumberLimbs + 1 THEN n ELSE 0], d)
      inexact == IF r.remainder # 0 /\ r.quotient[1] % 2 = 0
                 THEN [r.quotient EXCEPT ![1] = @ + 1]
                 ELSE r.quotient
      rounded == RoundNearestEven(inexact)
  IN  Number([j \in 1..NumberLimbs |-> Limb(rounded, j + 1)])

\* a + b
Add(a, b) ==
  IF a.nan \/ b.nan THEN NaN ELSE Number(RoundNearestEven(BigAdd(a.bits, b.bits)))

\* a * b
Multiply(a, b) ==
  IF a.nan \/ b.nan THEN NaN
  ELSE LET p == RoundNearestEven(BigMul(a.bits, b.bits))
       IN  Number([j \in 1..NumberLimbs |-> Limb(p, j + FractionLimbs)])

\* Math.max(0, 1 - a)
OneMinusOrZero(a) ==
  IF a.nan THEN NaN
  ELSE IF BigLess(a.bits, Whole(1).bits)
  THEN Number(RoundNearestEven(BigSub(Whole(1).bits, a.bits)))
  ELSE Whole(0)

\* a < b and a > b: false when either is NaN.
Less(a, b) == ~a.nan /\ ~b.nan /\ BigLess(a.bits, b.bits)

Greater(a, b) == Less(b, a)

\* Math.min(1, a)
MinOne(a) == IF a.nan THEN NaN ELSE IF Less(Whole(1), a) THEN Whole(1) ELSE a

\* a <= b: false when either is NaN.
AtMost(a, b) == ~a.nan /\ ~b.nan /\ ~BigLess(b.bits, a.bits)

\* Math.abs(a - b)
AbsDifference(a, b) ==
  IF a.nan \/ b.nan THEN NaN
  ELSE IF BigLess(a.bits, b.bits) THEN Number(RoundNearestEven(BigSub(b.bits, a.bits)))
  ELSE Number(RoundNearestEven(BigSub(a.bits, b.bits)))

\* The number 0 (bestConfidence = 0, confidence: 0).
Zero == Whole(0)

\* ------------------------------------------------------------ the platforms

\* type Platform
Platform == {"spotify", "youtube", "apple"}

\* ------------------------------------------------ compatibility analysis

\* Scores are kept in hundredths: 100 is 1.0.
FullCompatibility == 100

ClassicalPenalty == 10

ExplicitPenalty == 20

IndiePenalty == 15

OldMusicPenalty == 20

LongSongPenalty == 10

OldMusicYear == 1990

LongSongSeconds == 600

\* compatibility.compatibility < 0.3 rejects the conversion.
LowCompatibilityThreshold == 30

Classical == <<"c", "l", "a", "s", "s", "i", "c", "a", "l">>

Explicit == <<"e", "x", "p", "l", "i", "c", "i", "t">>

Indie == <<"i", "n", "d", "i", "e">>

RECURSIVE SumSeq(_)
SumSeq(xs) == IF xs = <<>> THEN 0 ELSE Head(xs) + SumSeq(Tail(xs))

\* songs.map(s => s.genre).filter(Boolean), as the set [...new Set(genres)] holds it.
UniqueGenres(songs) ==
  {Get(songs[i], "genre")[1] : i \in {k \in 1..Len(songs) :
      Get(songs[k], "genre") # <<>> /\ Get(songs[k], "genre")[1] # <<>>}}

\* songs.map(s => s.year).filter(Boolean)
KnownYears(songs) ==
  SelectSeq([i \in 1..Len(songs) |-> Get(songs[i], "year")],
            LAMBDA y : y # <<>> /\ y[1] # 0)

\* The penalty of the switch on targetPlatform.
GenrePenalty(genres, targetPlatform) ==
  CASE targetPlatform = "spotify" ->
         IF \E g \in genres : Includes(g, Classical) THEN ClassicalPenalty ELSE 0
    [] targetPlatform = "youtube" ->
         IF \E g \in genres : Includes(g, Explicit) THEN ExplicitPenalty ELSE 0
    [] targetPlatform = "apple" ->
         IF \E g \in genres : Includes(g, Indie) THEN IndiePenalty ELSE 0
    [] OTHER -> 0

\* The analysis with the estimate rounded up (Math.ceil for Math.floor).
AnalyzeCompatibilityCeil(songs, targetPlatform) ==
  LET years == KnownYears(songs)
      avgYear == Quot(SumSeq([i \in 1..Len(years) |-> years[i][1]]), Len(years))
      avgDuration == Quot(SumSeq([i \in 1..Len(songs) |-> songs[i].duration]), Len(songs))
      genrePenalty == GenrePenalty(UniqueGenres(songs), targetPlatform)
      yearPenalty == IF Lt(avgYear, Quot(OldMusicYear, 1)) THEN OldMusicPenalty ELSE 0
      durationPenalty == IF Gt(avgDuration, Quot(LongSongSeconds, 1)) THEN LongSongPenalty ELSE 0
      compatibility == FullCompatibility - genrePenalty - yearPenalty - durationPenalty
  IN  [compatibility |-> Max2(0, compatibility),
       estimatedMatches |-> -((-(Len(songs) * compatibility)) \div FullCompatibility),
       potentialIssues |-> <<>>]

\* analyzeCompatibility on the songs of the playlist row (playlist.songs.map(ps => ps.song)).
AnalyzeCompatibility(songs, targetPlatform) ==
  LET years == KnownYears(songs)
      avgYear == Quot(SumSeq([i \in 1..Len(years) |-> years[i][1]]), Len(years))
      avgDuration == Quot(SumSeq([i \in 1..Len(songs) |-> songs[i].duration]), Len(songs))
      genrePenalty == GenrePenalty(UniqueGenres(songs), targetPlatform)
      yearPenalty == IF Lt(avgYear, Quot(OldMusicYear, 1)) THEN OldMusicPenalty ELSE 0
      durationPenalty == IF Gt(avgDuration, Quot(LongSongSeconds, 1)) THEN LongSongPenalty ELSE 0
      compatibility == FullCompatibility - genrePenalty - yearPenalty - durationPenalty
  IN  [compatibility |-> Max2(0, compatibility),
       estimatedMatches |-> (Len(songs) * compatibility) \div FullCompatibility,
       potentialIssues |->
         (IF genrePenalty > 0 THEN <<"genre">> ELSE <<>>) \o
         (IF yearPenalty > 0 THEN <<"year">> ELSE <<>>) \o
         (IF durationPenalty > 0 THEN <<"duration">> ELSE <<>>)]

\* ------------------------------------------------------- string similarity

Min3(a, b, c) == Min2(a, Min2(b, c))

\* One row j of the matrix of levenshteinDistance, from row j - 1.
\* row[k] is matrix[j][k - 1].
LevenshteinRow(prev, str1, c2, j) ==
  LET RECURSIVE Fill(_, _)
      Fill(i, acc) ==
        IF i > Len(str1) THEN acc
        ELSE Fill(i + 1,
                  Append(acc, Min3(acc[i] + 1,
                                   prev[i + 1] + 1,
                                   prev[i] + (IF str1[i] = c2 THEN 0 ELSE 1))))
  IN  Fill(1, <<j>>)

\* The difference of the lengths for the edit distance.
levenshteinDistanceOfLengths(str1, str2) == Abs(Len(str1) - Len(str2))

levenshteinDistance(str1, str2) ==
  LET RECURSIVE Rows(_, _)
      Rows(j, prev) ==
        IF j > Len(str2) THEN prev[Len(str1) + 1]
        ELSE Rows(j + 1, LevenshteinRow(prev, str1, str2[j], j))
  IN  Rows(1, [k \in 1..(Len(str1) + 1) |-> k - 1])

\* The similarity relative to the length of the first string.
calculateStringSimilarityOfFirst(str1, str2) ==
  IF Len(str1) = 0 THEN Whole(1)
  ELSE Divide(Max2(0, Len(str1) - levenshteinDistance(str1, str2)), Len(str1))

\* calculateStringSimilarity
calculateStringSimilarity(str1, str2) ==
  LET longer == IF Len(str1) > Len(str2) THEN str1 ELSE str2
      shorter == IF Len(str1) > Len(str2) THEN str2 ELSE str1
  IN  IF Len(longer) = 0 THEN Whole(1)
      ELSE Divide(Len(longer) - levenshteinDistance(longer, shorter), Len(longer))

\* ------------------------------------------------------- match confidence

YearTolerance == 10

\* The weights 0.4, 0.3, 0.2 and 0.1.
TitleWeight == Divide(4, 10)

ArtistWeight == Divide(3, 10)

DurationWeight == Divide(2, 10)

YearWeight == Divide(1, 10)

\* Math.max(0, 1 - durationDiff / original.duration): 0 / 0 is NaN and stays
\* NaN, durationDiff / 0 is Infinity and gives 0.
DurationSimilarity(originalDuration, candidateDuration) ==
  LET durationDiff == Abs(originalDuration - candidateDuration)
  IN  IF originalDuration = 0
      THEN (IF durationDiff = 0 THEN NaN ELSE Whole(0))
      ELSE OneMinusOrZero(Divide(durationDiff, originalDuration))

\* original.year && candidate.year
YearsKnown(originalYear, candidateYear) ==
  originalYear # <<>> /\ candidateYear # <<>> /\ originalYear[1] # 0 /\ candidateYear[1] # 0

\* Math.max(0, 1 - yearDiff / 10)
YearSimilarity(originalYear, candidateYear) ==
  OneMinusOrZero(Divide(Abs(originalYear - candidateYear), YearTolerance))

\* calculateMatchConfidence: throws a TypeError when original.title or
\* original.artist is undefined (undefined.toLowerCase()).
calculateMatchConfidence(original, candidate) ==
  IF Get(original, "title") = <<>> \/ Get(original, "artist") = <<>>
  THEN [threw |-> TRUE, value |-> Zero]
  ELSE
    LET t == calculateStringSimilarity(ToLowerCase(original.title), ToLowerCase(candidate.title))
        a == calculateStringSimilarity(ToLowerCase(original.artist), ToLowerCase(candidate.artist))
        d == DurationSimilarity(original.duration, candidate.duration)
        withTitle == Add(Zero, Multiply(t, TitleWeight))
        withArtist == Add(withTitle, Multiply(a, ArtistWeight))
        withDuration == Add(withArtist, Multiply(d, DurationWeight))
        confidence ==
          IF YearsKnown(Get(original, "year"), Get(candidate, "year"))
          THEN Add(withDuration,
                   Multiply(YearSimilarity(original.year, candidate.year), YearWeight))
          ELSE withDuration
    IN  [threw |-> FALSE, value |-> MinOne(confidence)]

\* ------------------------------------------------------------ the catalogs

Unknown == <<"U", "n", "k", "n", "o", "w", "n">>

UnknownArtist == <<"U", "n", "k", "n", "o", "w", "n", " ", "A", "r", "t", "i", "s", "t">>

MsPerSecond == 1000

\* MusicService.convertExternalSong: the platform's track in the Song format.
\* The result has no id (Omit<Song, 'id' | ...>).
convertExternalSong(externalSong, platform) ==
  LET name == Get(externalSong, "name")
      artist == Get(externalSong, "artist")
      ms == Get(externalSong, "duration_ms")
      base == [title |-> IF name # <<>> /\ name[1] # <<>> THEN name[1] ELSE Unknown,
               artist |-> IF artist # <<>> /\ artist[1] # <<>> THEN artist[1] ELSE UnknownArtist,
               duration |-> IF ms # <<>> /\ ms[1] # 0 THEN ms[1] \div MsPerSecond ELSE 0,
               platform |-> platform,
               platformId |-> IF Get(externalSong, "id") # <<>> THEN externalSong.id ELSE ""]
  IN  IF Get(externalSong, "release_year") # <<>>
      THEN base @@ [year |-> externalSong.release_year]
      ELSE base

\* MusicService.removeDuplicateSongs: first song of every lower-cased (title, artist).
RECURSIVE removeDuplicateSongs(_)
removeDuplicateSongs(songs) ==
  IF songs = <<>> THEN <<>>
  ELSE LET init == removeDuplicateSongs(SubSeq(songs, 1, Len(songs) - 1))
           last == songs[Len(songs)]
           key(x) == <<ToLowerCase(x.title), ToLowerCase(x.artist)>>
       IN  IF \E i \in 1..Len(init) : key(init[i]) = key(last)
           THEN init
           ELSE Append(init, last)

\* The songs of the stored playlists (rows of the song table).
SongOne ==
  [id |-> "s1", title |-> <<"A", "b">>, artist |-> <<"x">>, album |-> <<"m">>,
   duration |-> 183, genre |-> Classical, year |-> 1965,
   platform |-> "apple", platformId |-> "a1"]

SongTwo ==
  [id |-> "s2", title |-> <<"c">>, artist |-> <<"y">>,
   duration |-> 540, platform |-> "apple", platformId |-> "a2"]

SongThree ==
  [id |-> "s3", title |-> <<"b", "c">>, artist |-> <<"x", "y">>,
   duration |-> 200, genre |-> Explicit, year |-> 2001,
   platform |-> "apple", platformId |-> "a3"]

SongFour ==
  [id |-> "s4", title |-> <<"a">>, artist |-> <<"x">>,
   duration |-> 540, genre |-> Classical, year |-> 1962,
   platform |-> "apple", platformId |-> "a4"]

SongFive ==
  [id |-> "s5", title |-> <<"b">>, artist |-> <<"y">>,
   duration |-> 900, genre |-> Indie \o <<" ">> \o Explicit, year |-> 1975,
   platform |-> "apple", platformId |-> "a5"]

SongSix ==
  [id |-> "s6", title |-> <<"c", "c">>, artist |-> <<"x">>,
   duration |-> 540, genre |-> Classical, year |-> 1968,
   platform |-> "apple", platformId |-> "a6"]

\* The songs the playlist of the conversion runs is drawn from.
SongPool == {SongOne, SongTwo}

\* The songs the playlist of the preview and analysis runs is drawn from.
PreviewPool == {SongOne, SongTwo, SongThree, SongFour, SongFive, SongSix}

\* "xy" "bc" and xy bc, the first two queries of the plan of SongThree.
QuotedSongThree == <<"\"", "x", "y", "\"", " ", "\"", "b", "c", "\"">>

PlainSongThree == <<"x", "y", " ", "b", "c">>

\* The searches the platform fails (a network or catalog failure of
\* IPlatformService.searchMusic).
searchFails(platform, query) ==
  platform \in {"apple", "youtube"} /\ query = PlainSongThree

\* What the platform's search (IPlatformService.searchMusic) answers: the
\* external catalogs hold two versions of SongOne (in either order, with and
\* without the release year), versions of SongThree, nothing of SongTwo but
\* an unrelated track on youtube, and a track for the text "undefined undefined".
searchMusic(platform, query) ==
  CASE platform = "spotify" /\ query = <<"x", " ", "A", "b">> ->
         <<[name |-> <<"A", "b", " ", "2">>, artist |-> <<"x">>, duration_ms |-> 188000,
            release_year |-> 1965, id |-> "sp-ab-remaster"],
           [name |-> <<"A", "b">>, artist |-> <<"x">>, duration_ms |-> 183000,
            release_year |-> 1965, id |-> "sp-ab"]>>
    [] platform = "spotify" /\ query = <<"A", "b">> ->
         <<[name |-> <<"a", "B">>, artist |-> <<"X">>, duration_ms |-> 183500,
            release_year |-> 1965, id |-> "sp-ab-dup"]>>
    [] platform = "spotify" /\ query = <<"x", "y">> ->
         <<[name |-> <<"b", "c">>, artist |-> <<"y">>, duration_ms |-> 150000, id |-> "sp-bc"]>>
    [] platform = "youtube" /\ query = <<"x", " ", "A", "b">> ->
         <<[name |-> <<"A", "b">>, artist |-> <<"x">>, id |-> "yt-ab"]>>
    [] platform = "apple" /\ query = <<"x", " ", "A", "b">> ->
         <<[name |-> <<"A", "b">>, artist |-> <<"x">>, duration_ms |-> 183000, id |-> "ap-ab"],
           [name |-> <<"A", "b", " ", "2">>, artist |-> <<"x">>, duration_ms |-> 188000,
            id |-> "ap-ab-remaster"]>>
    [] platform = "apple" /\ query = QuotedSongThree ->
         <<[name |-> <<"b">>, artist |-> <<"x", "y">>, duration_ms |-> 200000, id |-> "ap-b"]>>
    [] platform = "apple" /\ query = <<"b", "c">> ->
         <<[name |-> <<"b", "c">>, artist |-> <<"x", "y">>, duration_ms |-> 200000,
            id |-> "ap-bc"]>>
    [] platform = "youtube" /\ query = QuotedSongThree ->
         <<[name |-> <<"b", "c">>, artist |-> <<"x", "y">>, id |-> "yt-bc"]>>
    [] platform = "youtube" /\ query = <<"b", "c">> ->
         <<[name |-> <<"c">>, artist |-> <<"x">>, id |-> "yt-c"]>>
    [] platform = "youtube" /\ query = <<"y", " ", "c">> ->
         <<[name |-> <<"A", "b">>, artist |-> <<"x">>, id |-> "yt-other"]>>
    [] platform \in {"spotify", "youtube"} /\ query = UndefinedStr \o <<" ">> \o UndefinedStr ->
         <<[name |-> UndefinedStr, artist |-> UndefinedStr, duration_ms |-> 100000,
            id |-> "undef"]>>
    [] OTHER -> <<>>

\* MusicService.searchInPlatform: the platform's tracks in the Song format; a
\* failure of the platform's search is caught and gives no result.
searchInPlatform(query, platform) ==
  IF searchFails(platform, query) THEN <<>>
  ELSE LET externalSongs == searchMusic(platform, query)
       IN  [i \in 1..Len(externalSongs) |-> convertExternalSong(externalSongs[i], platform)]

\* MusicService.searchSongs for one platform: throws on a missing or blank query.
searchSongs(query, platform, limit) ==
  IF query = <<>> \/ query[1] = <<>> \/ IsBlank(query[1])
  THEN [threw |-> TRUE, songs |-> <<>>]
  ELSE LET uniqueSongs == removeDuplicateSongs(searchInPlatform(query[1], platform))
       IN  [threw |-> FALSE, songs |-> SubSeq(uniqueSongs, 1, Min2(limit, Len(uniqueSongs)))]

\* ----------------------------------------------------------- song matching

SearchLimit == 5

\* isExactMatch: bestConfidence > 0.8
ExactThreshold == Divide(8, 10)

\* The plan with the album query pushed for every song.
generateSearchQueriesAlbumAlways(song) ==
  LET artist == TemplateStr(Get(song, "artist"))
      title == TemplateStr(Get(song, "title"))
  IN  << <<(<<"\"">> \o artist \o <<"\"", " ", "\"">> \o title \o <<"\"">>)>>,
         <<(artist \o <<" ">> \o title)>>,
         <<(artist \o <<" ">> \o TemplateStr(Get(song, "album")))>> >>
      \o <<Get(song, "title"), Get(song, "artist")>>

\* generateSearchQueries: the list of queries; an entry is <<>> when the
\* query pushed is undefined (song.title or song.artist of an object without it).
generateSearchQueries(song) ==
  LET artist == TemplateStr(Get(song, "artist"))
      title == TemplateStr(Get(song, "title"))
      album == Get(song, "album")
  IN  << <<(<<"\"">> \o artist \o <<"\"", " ", "\"">> \o title \o <<"\"">>)>>,
         <<(artist \o <<" ">> \o title)>> >>
      \o (IF album # <<>> /\ album[1] # <<>>
          THEN << <<(artist \o <<" ">> \o album[1])>> >>
          ELSE <<>>)
      \o <<Get(song, "title"), Get(song, "artist")>>

\* The inner loop with a candidate taken when its confidence is at least the best.
RECURSIVE ScanResultsAtLeast(_, _, _, _)
ScanResultsAtLeast(originalSong, results, k, best) ==
  IF k > Len(results) THEN best
  ELSE Only({ IF c.threw THEN best
               ELSE Only({ ScanResultsAtLeast(originalSong, results, k + 1, better) :
                           better \in {IF AtMost(best.confidence, c.value)
                                       THEN [best EXCEPT !.song = <<results[k]>>,
                                                         !.confidence = c.value]
                                       ELSE best} }) :
               c \in {calculateMatchConfidence(originalSong, results[k])} })

\* The inner loop of findEquivalentSong over one query's results: an exception
\* of calculateMatchConfidence leaves the loop and keeps the best so far.
RECURSIVE ScanResults(_, _, _, _)
ScanResults(originalSong, results, k, best) ==
  IF k > Len(results) THEN best
  ELSE Only({ IF c.threw THEN best
               ELSE Only({ ScanResults(originalSong, results, k + 1, better) :
                           better \in {IF Greater(c.value, best.confidence)
                                       THEN [best EXCEPT !.song = <<results[k]>>,
                                                         !.confidence = c.value]
                                       ELSE best} }) :
               c \in {calculateMatchConfidence(originalSong, results[k])} })

\* The loop over the queries that ends at the first failed search.
RECURSIVE ScanQueriesUntilFailure(_, _, _, _, _)
ScanQueriesUntilFailure(originalSong, targetPlatform, queries, q, best) ==
  IF q > Len(queries) THEN best
  ELSE Only({ IF r.threw \/ searchFails(targetPlatform, queries[q][1]) THEN asked
               ELSE Only({ ScanQueriesUntilFailure(originalSong, targetPlatform,
                                                   queries, q + 1, next) :
                           next \in {ScanResults(originalSong, r.songs, 1, asked)} }) :
               r \in {searchSongs(queries[q], targetPlatform, SearchLimit)},
               asked \in {[best EXCEPT !.issued = Append(@, queries[q])]} })

\* The loop of findEquivalentSong over the queries: best holds bestMatch,
\* bestConfidence and the queries passed to searchSongs so far.
RECURSIVE ScanQueries(_, _, _, _, _)
ScanQueries(originalSong, targetPlatform, queries, q, best) ==
  IF q > Len(queries) THEN best
  ELSE Only({ Only({ ScanQueries(originalSong, targetPlatform, queries, q + 1, next) :
                      next \in {IF r.threw THEN asked
                                ELSE ScanResults(originalSong, r.songs, 1, asked)} }) :
               r \in {searchSongs(queries[q], targetPlatform, SearchLimit)},
               asked \in {[best EXCEPT !.issued = Append(@, queries[q])]} })

\* The loops of findEquivalentSong, from bestMatch = null and bestConfidence = 0.
BestMatch(originalSong, targetPlatform) ==
  ScanQueries(originalSong, targetPlatform, generateSearchQueries(originalSong), 1,
              [song |-> <<>>, confidence |-> Zero, issued |-> <<>>])

\* findEquivalentSong with every matched song called exact.
findEquivalentSongExactWhenMatched(originalSong, targetPlatform) ==
  Only({ LET match == [originalSong |-> originalSong,
                        confidence |-> best.confidence,
                        platform |-> targetPlatform,
                        isExactMatch |-> best.song # <<>>]
          IN  IF best.song # <<>> THEN match @@ [matchedSong |-> best.song[1]]
              ELSE match :
          best \in {BestMatch(originalSong, targetPlatform)} })

\* findEquivalentSong
findEquivalentSong(originalSong, targetPlatform) ==
  Only({ LET match == [originalSong |-> originalSong,
                        confidence |-> best.confidence,
                        platform |-> targetPlatform,
                        isExactMatch |-> Greater(best.confidence, ExactThreshold)]
          IN  IF best.song # <<>> THEN match @@ [matchedSong |-> best.song[1]]
              ELSE match :
          best \in {BestMatch(originalSong, targetPlatform)} })

\* The batch without its unmatched songs (a failed song dropped, not recorded).
RECURSIVE findEquivalentSongsDropUnmatched(_, _)
findEquivalentSongsDropUnmatched(songs, targetPlatform) ==
  IF songs = <<>> THEN <<>>
  ELSE LET song == songs[Len(songs)]
           matches == findEquivalentSongsDropUnmatched(SubSeq(songs, 1, Len(songs) - 1),
                                                       targetPlatform)
           match == findEquivalentSong(song, targetPlatform)
       IN  IF song = <<>> \/ "matchedSong" \notin DOMAIN match
           THEN matches
           ELSE Append(matches, match)

\* findEquivalentSongs: one match per song, a song whose matching throws
\* (findEquivalentSong of null) gets the fallback match.
RECURSIVE findEquivalentSongs(_, _)
findEquivalentSongs(songs, targetPlatform) ==
  IF songs = <<>> THEN <<>>
  ELSE LET song == songs[Len(songs)]
           matches == findEquivalentSongs(SubSeq(songs, 1, Len(songs) - 1), targetPlatform)
       IN  IF song = <<>>
           THEN Append(matches, [originalSong |-> song, confidence |-> Zero,
                                 platform |-> targetPlatform, isExactMatch |-> FALSE])
           ELSE Append(matches, findEquivalentSong(song, targetPlatform))

\* The searchSongs calls findEquivalentSongs issues (one per query of every song).
SearchCalls(songs) ==
  SumSeq([i \in 1..Len(songs) |-> Len(generateSearchQueries(songs[i]))])

\* ------------------------------------------------------------------- state

VARIABLES
  playlists,          \* the playlist table with its songs: playlistId -> row
  conversions,        \* the playlistConversion table, in insertion order
  externalPlaylists,  \* the playlists created on the external platforms
  localPlaylists,     \* the playlists PlaylistService.createPlaylist stored for conversions
  integrations,       \* the platformIntegration table: <<userId, platform>> -> state
  songTable,          \* the song table, in insertion order
  calls               \* the calls made on the service, each with its position

vars ==
  <<playlists, conversions, externalPlaylists, localPlaylists, integrations, songTable, calls>>

CallIds == 1..MaxCalls

Users == {"u1", "u2"}

\* "p1" is the stored playlist, owned by "u1"; "p0" is an id of no playlist.
PlaylistIds == {"p1", "p0"}

\* The platforms the conversion calls of the model ask for.
ConvertTargets == {"spotify", "youtube"}

\* targetPlatform.toUpperCase()
toUpperCase(platform) ==
  CASE platform = "spotify" -> "SPOTIFY"
    [] platform = "youtube" -> "YOUTUBE"
    [] platform = "apple" -> "APPLE"

\* A row of playlist.songs as prisma returns it (include: { song: true }).
PlaylistSongRow(playlistId, position, song) ==
  [id |-> <<playlistId, position>>, playlistId |-> playlistId, songId |-> song.id,
   position |-> position, song |-> song]

PlaylistRow(playlistId, userId, songs) ==
  [id |-> playlistId, userId |-> userId,
   songs |-> [i \in 1..Len(songs) |-> PlaylistSongRow(playlistId, i - 1, songs[i])]]

\* The sequences of distinct songs of a pool, up to a length.
SongLists(pool, maxLen) ==
  UNION {{s \in [1..n -> pool] : \A i, j \in 1..n : i # j => s[i] # s[j]} : n \in 0..maxLen}

IdleCall == [kind |-> "none", pc |-> "idle"]

\* playlist.songs.map(ps => ps.song)
SongsOf(playlist) == [i \in 1..Len(playlist.songs) |-> playlist.songs[i].song]

\* The rows of the conversion table for a playlist and a target.
ConversionsFor(playlistId, targetPlatform) ==
  {i \in 1..Len(conversions) :
     /\ conversions[i].originalPlaylistId = playlistId
     /\ conversions[i].targetPlatform = toUpperCase(targetPlatform)}

\* The lookup with the stored upper-case platform compared to the argument as given.
existingConversionCaseSensitive(playlistId, targetPlatform) ==
  \E i \in 1..Len(conversions) :
    /\ conversions[i].originalPlaylistId = playlistId
    /\ conversions[i].targetPlatform = targetPlatform

\* prisma.playlistConversion.findFirst({ where: { originalPlaylistId, targetPlatform } })
existingConversion(playlistId, targetPlatform) ==
  ConversionsFor(playlistId, targetPlatform) # {}

Init ==
  /\ \E songs \in SongLists(SongPool, MaxSongs) :
       playlists = [p \in {"p1"} |-> PlaylistRow(p, "u1", songs)]
  /\ conversions = <<>>
  /\ externalPlaylists = <<>>
  /\ localPlaylists = <<>>
  /\ integrations = (<<"u1", "spotify">> :> "expired") @@ (<<"u1", "youtube">> :> "valid")
  /\ songTable = <<>>
  /\ calls = [c \in CallIds |-> IdleCall]

\* The call c may begin: the calls begin in the order of their ids.
CanBegin(c) == calls[c].pc = "idle" /\ (IF c = 1 THEN TRUE ELSE calls[c - 1].pc # "idle")

\* A throw inside the try block of convertPlaylist: control goes to the catch block.
Throw(c, message) == [calls EXCEPT ![c].pc = "catch", ![c].error = message]

\* convertPlaylist, step 1: playlistService.getPlaylistById(playlistId, userId).
ConvertPlaylist(c, playlistId, targetPlatform, userId) ==
  /\ CanBegin(c)
  /\ LET call == [kind |-> "convert", pc |-> "findExisting", playlistId |-> playlistId,
                  targetPlatform |-> targetPlatform, userId |-> userId, error |-> "",
                  completedBefore |->
                    \E i \in ConversionsFor(playlistId, targetPlatform) :
                      conversions[i].status = "COMPLETED",
                  searches |-> 0]
     IN  calls' = [calls EXCEPT ![c] =
           IF playlistId \notin DOMAIN playlists
           THEN [call EXCEPT !.pc = "catch", !.error = "Playlist not found"]
           ELSE IF playlists[playlistId].userId # userId
           THEN [call EXCEPT !.pc = "catch", !.error = "Access denied"]
           ELSE call]
  /\ UNCHANGED <<playlists, conversions, externalPlaylists, localPlaylists, integrations, songTable>>

\* Step 2: the idempotency check.
FindExisting(c) ==
  /\ calls[c].pc = "findExisting"
  /\ LET seen == {conversions[i].status :
                    i \in ConversionsFor(calls[c].playlistId, calls[c].targetPlatform)}
         noted == [calls EXCEPT ![c] = calls[c] @@ [seen |-> seen]]
     IN  calls' =
           IF existingConversion(calls[c].playlistId, calls[c].targetPlatform)
           THEN [noted EXCEPT ![c].pc = "catch",
                              ![c].error = "Playlist already converted to this platform"]
           ELSE [noted EXCEPT ![c].pc = "analyze"]
  /\ UNCHANGED <<playlists, conversions, externalPlaylists, localPlaylists, integrations, songTable>>

\* Step 3: analyzeCompatibility and the low-compatibility gate.
Analyze(c) ==
  /\ calls[c].pc = "analyze"
  /\ LET compatibility ==
           AnalyzeCompatibility(SongsOf(playlists[calls[c].playlistId]), calls[c].targetPlatform)
         noted == [calls EXCEPT ![c] = calls[c] @@ [compatibility |-> compatibility]]
     IN  calls' =
           IF compatibility.compatibility < LowCompatibilityThreshold
           THEN [noted EXCEPT ![c].pc = "catch", ![c].error = "Low compatibility"]
           ELSE [noted EXCEPT ![c].pc = "match"]
  /\ UNCHANGED <<playlists, conversions, externalPlaylists, localPlaylists, integrations, songTable>>

\* Step 4: findEquivalentSongs(originalPlaylist.songs, targetPlatform): the
\* argument is the list of playlist-song rows, not of their songs.
Match(c) ==
  /\ calls[c].pc = "match"
  /\ LET songs == playlists[calls[c].playlistId].songs
     IN  calls' = [calls EXCEPT ![c] =
           [calls[c] EXCEPT !.pc = "token", !.searches = SearchCalls(songs)]
           @@ [songMatches |-> findEquivalentSongs(songs, calls[c].targetPlatform)]]
  /\ UNCHANGED <<playlists, conversions, externalPlaylists, localPlaylists, integrations, songTable>>

\* getPlatformAccessToken: the token (TRUE) or null (FALSE), and the
\* integration table after the call; refreshed tells whether service.refreshToken
\* of an expired token succeeds.
getPlatformAccessToken(platform, userId, refreshed) ==
  LET key == <<userId, platform>>
  IN  IF key \notin DOMAIN integrations \/ integrations[key] = "inactive"
      THEN [token |-> FALSE, table |-> integrations]
      ELSE IF integrations[key] = "expired"
      THEN (IF refreshed
            THEN [token |-> TRUE, table |-> [integrations EXCEPT ![key] = "valid"]]
            ELSE [token |-> FALSE, table |-> integrations])
      ELSE [token |-> TRUE, table |-> integrations]

\* Step 5: the access token of the target platform.
GetToken(c) ==
  /\ calls[c].pc = "token"
  /\ \E refreshed \in BOOLEAN :
       LET r == getPlatformAccessToken(calls[c].targetPlatform, calls[c].userId, refreshed)
       IN  /\ integrations' = r.table
           /\ calls' = IF r.token
                       THEN [calls EXCEPT ![c].pc = "createExternal"]
                       ELSE Throw(c, "No access token available")
  /\ UNCHANGED <<playlists, conversions, externalPlaylists, localPlaylists, songTable>>

\* songMatches.filter(match => match.matchedSong)
MatchedOf(songMatches) == SelectSeq(songMatches, LAMBDA m : "matchedSong" \in DOMAIN m)

\* matchedSongs.map(match => match.matchedSong.platformId)
MatchedSongIds(songMatches) ==
  LET matched == MatchedOf(songMatches)
  IN  [i \in 1..Len(matched) |-> matched[i].matchedSong.platformId]

\* Steps 6 and 7: targetService.createPlaylist, then addTracksToPlaylist when
\* some song matched; either platform call may fail.
CreateExternal(c) ==
  /\ calls[c].pc = "createExternal"
  /\ \E created \in BOOLEAN, added \in BOOLEAN :
       LET ids == MatchedSongIds(calls[c].songMatches)
           external == [platform |-> calls[c].targetPlatform, by |-> c,
                        playlistId |-> calls[c].playlistId, tracks |-> <<>>]
       IN  IF ~created
           THEN /\ externalPlaylists' = externalPlaylists
                /\ calls' = Throw(c, "Failed to create playlist")
           ELSE IF Len(ids) = 0
           THEN /\ externalPlaylists' = Append(externalPlaylists, external)
                /\ calls' = [calls EXCEPT ![c].pc = "saveConversion"]
           ELSE IF added
           THEN /\ externalPlaylists' =
                     Append(externalPlaylists, [external EXCEPT !.tracks = ids])
                /\ calls' = [calls EXCEPT ![c].pc = "saveConversion"]
           ELSE /\ externalPlaylists' = Append(externalPlaylists, external)
                /\ calls' = Throw(c, "Failed to add tracks")
  /\ UNCHANGED <<playlists, conversions, localPlaylists, integrations, songTable>>

\* The row convertPlaylist stores for a finished conversion.
CompletedRow(c) ==
  LET songMatches == calls[c].songMatches
      matched == MatchedOf(songMatches)
  IN  [originalPlaylistId |-> calls[c].playlistId,
       targetPlatform |-> toUpperCase(calls[c].targetPlatform),
       status |-> "COMPLETED",
       matchedSongs |-> Len(matched),
       unmatchedSongs |-> Len(songMatches) - Len(matched),
       conversionRate |-> Quot(Len(matched), Len(songMatches)),
       errors |-> Len(SelectSeq(songMatches, LAMBDA m : "matchedSong" \notin DOMAIN m)),
       by |-> c]

\* The row the catch block stores.
FailedRow(c) ==
  [originalPlaylistId |-> calls[c].playlistId,
   targetPlatform |-> toUpperCase(calls[c].targetPlatform),
   status |-> "FAILED",
   errors |-> <<calls[c].error>>,
   by |-> c]

\* Step 8: prisma.playlistConversion.create of the COMPLETED row; the insert may be rejected.
SaveConversion(c) ==
  /\ calls[c].pc = "saveConversion"
  /\ \E stored \in BOOLEAN :
       IF stored
       THEN /\ conversions' = Append(conversions, CompletedRow(c))
            /\ calls' = [calls EXCEPT ![c].pc = "createLocal"]
       ELSE /\ conversions' = conversions
            /\ calls' = Throw(c, "Database error")
  /\ UNCHANGED <<playlists, externalPlaylists, localPlaylists, integrations, songTable>>

\* Step 9: playlistService.createPlaylist of the local copy (it throws when its
\* validations fail), then the successful result.
CreateLocal(c) ==
  /\ calls[c].pc = "createLocal"
  /\ \E created \in BOOLEAN :
       IF created
       THEN LET songMatches == calls[c].songMatches
                matched == MatchedOf(songMatches)
            IN  /\ localPlaylists' = Append(localPlaylists,
                     [platform |-> calls[c].targetPlatform, by |-> c,
                      songs |-> Len(matched)])
                /\ calls' = [calls EXCEPT ![c] = [calls[c] EXCEPT !.pc = "returned"] @@
                     [result |->
                        [success |-> TRUE,
                         songCount |-> Len(playlists[calls[c].playlistId].songs),
                         matchedSongs |-> Len(matched),
                         unmatchedSongs |-> Len(songMatches) - Len(matched),
                         conversionRate |-> Quot(Len(matched), Len(songMatches)),
                         errors |-> <<>>]]]
       ELSE /\ localPlaylists' = localPlaylists
            /\ calls' = Throw(c, "Failed to create local playlist")
  /\ UNCHANGED <<playlists, conversions, externalPlaylists, integrations, songTable>>

\* The catch block: prisma.playlistConversion.create of the FAILED row, outside
\* any try, then the failure result; a rejected insert leaves convertPlaylist
\* as an exception.
Catch(c) ==
  /\ calls[c].pc = "catch"
  /\ \E stored \in BOOLEAN :
       IF stored
       THEN /\ conversions' = Append(conversions, FailedRow(c))
            /\ calls' = [calls EXCEPT ![c] = [calls[c] EXCEPT !.pc = "returned"] @@
                 [result |-> [success |-> FALSE, songCount |-> 0,
                              errors |-> <<calls[c].error>>]]]
       ELSE /\ conversions' = conversions
            /\ calls' = [calls EXCEPT ![c].pc = "thrown"]
  /\ UNCHANGED <<playlists, externalPlaylists, localPlaylists, integrations, songTable>>

Next ==
  \E c \in CallIds :
    \/ \E p \in PlaylistIds, t \in ConvertTargets, u \in Users : ConvertPlaylist(c, p, t, u)
    \/ FindExisting(c)
    \/ Analyze(c)
    \/ Match(c)
    \/ GetToken(c)
    \/ CreateExternal(c)
    \/ SaveConversion(c)
    \/ CreateLocal(c)
    \/ Catch(c)

Spec == Init /\ [][Next]_vars

\* The caller of a conversion that is under way (past its idempotency check,
\* its record not yet written) asks for its cancellation. convertPlaylist
\* takes no cancellation signal and the service has no operation for it: the
\* request is noted with the step it came at, and reaches nothing.
RequestCancel(c) ==
  /\ calls[c].kind = "convert"
  /\ calls[c].pc \in {"analyze", "match", "token", "createExternal", "saveConversion"}
  /\ "cancelledAt" \notin DOMAIN calls[c]
  /\ calls' = [calls EXCEPT ![c] = calls[c] @@ [cancelledAt |-> calls[c].pc]]
  /\ UNCHANGED <<playlists, conversions, externalPlaylists, localPlaylists, integrations, songTable>>

CancelNext == Next \/ \E c \in CallIds : RequestCancel(c)

SpecCancel == Init /\ [][CancelNext]_vars

\* ------------------------------------------- preview and analysis requests

\* previewConversion(playlistId, targetPlatform): the matches of the playlist's
\* songs, or an exception when there is no such playlist.
PreviewConversion(c, playlistId, targetPlatform) ==
  /\ CanBegin(c)
  /\ calls' = [calls EXCEPT ![c] =
       IF playlistId \notin DOMAIN playlists
       THEN [kind |-> "preview", pc |-> "thrown", playlistId |-> playlistId,
             targetPlatform |-> targetPlatform, error |-> "Playlist not found"]
       ELSE [kind |-> "preview", pc |-> "returned", playlistId |-> playlistId,
             targetPlatform |-> targetPlatform, error |-> "",
             songMatches |->
               findEquivalentSongs(SongsOf(playlists[playlistId]), targetPlatform),
             issued |->
               [i \in 1..Len(playlists[playlistId].songs) |->
                  BestMatch(playlists[playlistId].songs[i].song, targetPlatform).issued]]]
  /\ UNCHANGED <<playlists, conversions, externalPlaylists, localPlaylists, integrations, songTable>>

\* analyzeCompatibility(playlistId, targetPlatform) as the preview route calls it.
AnalyzePlaylist(c, playlistId, targetPlatform) ==
  /\ CanBegin(c)
  /\ calls' = [calls EXCEPT ![c] =
       IF playlistId \notin DOMAIN playlists
       THEN [kind |-> "analyze", pc |-> "thrown", playlistId |-> playlistId,
             targetPlatform |-> targetPlatform, error |-> "Playlist not found"]
       ELSE [kind |-> "analyze", pc |-> "returned", playlistId |-> playlistId,
             targetPlatform |-> targetPlatform, error |-> "",
             compatibility |->
               AnalyzeCompatibility(SongsOf(playlists[playlistId]), targetPlatform)]]
  /\ UNCHANGED <<playlists, conversions, externalPlaylists, localPlaylists, integrations, songTable>>

PreviewInit ==
  /\ \E songs \in SongLists(PreviewPool, MaxSongs) :
       playlists = [p \in {"p1"} |-> PlaylistRow(p, "u1", songs)]
  /\ conversions = <<>>
  /\ externalPlaylists = <<>>
  /\ localPlaylists = <<>>
  /\ integrations = (<<"u1", "spotify">> :> "expired") @@ (<<"u1", "youtube">> :> "valid")
  /\ songTable = <<>>
  /\ calls = [c \in CallIds |-> IdleCall]

\* The two routes read the playlist and write nothing, so a call sees what it
\* sees alone: one call per behaviour, over every stored playlist.
PreviewNext ==
  \E p \in PlaylistIds, t \in Platform :
    \/ PreviewConversion(1, p, t)
    \/ AnalyzePlaylist(1, p, t)

SpecPreview == PreviewInit /\ [][PreviewNext]_vars

\* ------------------------------------------- the functions of the matcher

\* The strings calculateStringSimilarity is applied to.
Alphabet == {"a", "b"}

Strings == UNION {[1..n -> Alphabet] : n \in 0..MaxLen}

\* The source songs and the candidates calculateMatchConfidence is applied to.
SourceSongs ==
  {[id |-> "s", title |-> t, artist |-> <<"x">>, duration |-> d,
    platform |-> "apple", platformId |-> "a"] @@ y :
     t \in {<<"A", "b">>, <<"b">>},
     d \in {0, 183, 540},
     y \in {<<>>, [year |-> 1965]}}

Candidates ==
  {[title |-> t, artist |-> a, duration |-> d,
    platform |-> "spotify", platformId |-> "t"] @@ y :
     t \in {<<"a", "b">>, <<"A", "b", " ", "2">>, <<"c">>},
     a \in {<<"x">>, <<"y">>},
     d \in {0, 183, 188, 900},
     y \in {<<>>, [year |-> 1965], [year |-> 1971], [year |-> 1990]}}

\* The songs generateSearchQueries is applied to: the songs of the pool as
\* they are, without album, and with the empty string for album.
PlannedSongs ==
  PreviewPool
  \union {[f \in DOMAIN s \ {"album"} |-> s[f]] : s \in PreviewPool}
  \union {[album |-> <<>>] @@ s : s \in PreviewPool}

\* calculateStringSimilarity(str1, str2)
CalculateStringSimilarity(c, str1, str2) ==
  /\ CanBegin(c)
  /\ calls' = [calls EXCEPT ![c] =
       [kind |-> "similarity", pc |-> "returned", str1 |-> str1, str2 |-> str2,
        similarity |-> calculateStringSimilarity(str1, str2)]]
  /\ UNCHANGED <<playlists, conversions, externalPlaylists, localPlaylists, integrations, songTable>>

\* calculateMatchConfidence(original, candidate)
CalculateMatchConfidence(c, original, candidate) ==
  /\ CanBegin(c)
  /\ LET r == calculateMatchConfidence(original, candidate)
     IN  calls' = [calls EXCEPT ![c] =
           [kind |-> "confidence", pc |-> IF r.threw THEN "thrown" ELSE "returned",
            original |-> original, candidate |-> candidate, confidence |-> r.value]]
  /\ UNCHANGED <<playlists, conversions, externalPlaylists, localPlaylists, integrations, songTable>>

\* generateSearchQueries(song)
GenerateSearchQueries(c, song) ==
  /\ CanBegin(c)
  /\ calls' = [calls EXCEPT ![c] =
       [kind |-> "queries", pc |-> "returned", song |-> song,
        queries |-> generateSearchQueries(song)]]
  /\ UNCHANGED <<playlists, conversions, externalPlaylists, localPlaylists, integrations, songTable>>

\* The service before any call, with the stored playlist empty.
MatcherInit ==
  /\ playlists = [p \in {"p1"} |-> PlaylistRow(p, "u1", <<>>)]
  /\ conversions = <<>>
  /\ externalPlaylists = <<>>
  /\ localPlaylists = <<>>
  /\ integrations = (<<"u1", "spotify">> :> "expired") @@ (<<"u1", "youtube">> :> "valid")
  /\ songTable = <<>>
  /\ calls = [c \in CallIds |-> IdleCall]

\* The functions are applied to one input in a behaviour, as the first call.
MatcherNext ==
  \/ \E str1 \in Strings, str2 \in Strings : CalculateStringSimilarity(1, str1, str2)
  \/ \E original \in SourceSongs, candidate \in Candidates :
       CalculateMatchConfidence(1, original, candidate)
  \/ \E song \in PlannedSongs : GenerateSearchQueries(1, song)

SpecMatcher == MatcherInit /\ [][MatcherNext]_vars

\* ------------------------------------------------------ the recommendations

\* Rows of the song table the recommendation sources return: r2 has the title
\* and artist of r1 under another catalog id, r3 has them in another letter case.
RecPool ==
  {[id |-> "r1", title |-> <<"A", "b">>, artist |-> <<"x">>, platformId |-> "a1"],
   [id |-> "r2", title |-> <<"A", "b">>, artist |-> <<"x">>, platformId |-> "a7"],
   [id |-> "r3", title |-> <<"a", "b">>, artist |-> <<"X">>, platformId |-> "a8"],
   [id |-> "r4", title |-> <<"c">>, artist |-> <<"y">>, platformId |-> "a2"]}

\* The scores getRecommendationsByAudioFeatures computes for the rows it reads.
AudioScores == {Divide(2, 10), Divide(4, 10)}

\* .filter(song => song.recommendationScore > 0.3)
AudioThreshold == Divide(3, 10)

\* songs.map(song => ({ ...song, recommendationScore }))
Scored(songs, score) ==
  [i \in 1..Len(songs) |-> [recommendationScore |-> score] @@ songs[i]]

\* Array.prototype.slice(0, end)
Slice(s, end) == SubSeq(s, 1, Min2(Len(s), Max2(end, 0)))

\* getRecommendationsByAudioFeatures from the scored rows: the rows above the
\* threshold, cut to limit (slice truncates the fraction of limit / 3).
getRecommendationsByAudioFeatures(scoredRows, limit) ==
  Slice(SelectSeq(scoredRows, LAMBDA r : Greater(r.recommendationScore, AudioThreshold)),
        limit \div 3)

\* `${rec.title}-${rec.artist}`
RecommendationKey(rec) == rec.title \o <<"-">> \o rec.artist

\* removeDuplicateRecommendations: a recommendation is kept when no earlier one has its key.
removeDuplicateRecommendations(recommendations) ==
  LET kept == {i \in 1..Len(recommendations) :
                 \A j \in 1..(i - 1) :
                   RecommendationKey(recommendations[j]) # RecommendationKey(recommendations[i])}
      position(n) == CHOOSE i \in kept : Cardinality({j \in kept : j < i}) = n - 1
  IN  [n \in 1..Cardinality(kept) |-> recommendations[position(n)]]

\* .sort((a, b) => b.recommendationScore - a.recommendationScore): the stable
\* sort by descending score.
RECURSIVE SortByScore(_)
SortByScore(recommendations) ==
  IF recommendations = <<>> THEN <<>>
  ELSE LET sorted == SortByScore(SubSeq(recommendations, 1, Len(recommendations) - 1))
           last == recommendations[Len(recommendations)]
           before == Cardinality({i \in 1..Len(sorted) :
                       ~Less(sorted[i].recommendationScore, last.recommendationScore)})
       IN  SubSeq(sorted, 1, before) \o <<last>> \o SubSeq(sorted, before + 1, Len(sorted))

\* The recommendations pushed by the three sources, in the order of the pushes:
\* by genre with recommendationScore 0.7, by artist with 0.6, by audio features.
PushedRecommendations(genreSongs, artistSongs, audioRows, limit) ==
  Scored(genreSongs, Divide(7, 10)) \o Scored(artistSongs, Divide(6, 10))
  \o getRecommendationsByAudioFeatures(audioRows, limit)

\* generateRecommendations, from what the three sources read
generateRecommendations(genreSongs, artistSongs, audioRows, userHistory, limit, excludePlayed) ==
  LET recommendations == PushedRecommendations(genreSongs, artistSongs, audioRows, limit)
      filteredRecommendations ==
        IF excludePlayed
        THEN SelectSeq(recommendations,
                       LAMBDA rec : ~\E h \in 1..Len(userHistory) : userHistory[h].id = rec.id)
        ELSE recommendations
      uniqueRecommendations == removeDuplicateRecommendations(filteredRecommendations)
  IN  Slice(SortByScore(uniqueRecommendations), limit)

\* A recommendation request, with what the sources read from the store as input.
GenerateRecommendations(c, genreSongs, artistSongs, audioRows, userHistory, limit, excludePlayed) ==
  /\ CanBegin(c)
  /\ calls' = [calls EXCEPT ![c] =
       [kind |-> "recommend", pc |-> "returned",
        pushed |-> PushedRecommendations(genreSongs, artistSongs, audioRows, limit),
        userHistory |-> userHistory, limit |-> limit, excludePlayed |-> excludePlayed,
        songs |-> generateRecommendations(genreSongs, artistSongs, audioRows, userHistory,
                                          limit, excludePlayed)]]
  /\ UNCHANGED <<playlists, conversions, externalPlaylists, localPlaylists, integrations, songTable>>

\* The requests: what the sources read and the arguments of the request.
RecommendationsNext ==
  \E genreSongs \in SongLists(RecPool, MaxSongs), artistSongs \in SongLists(RecPool, 1),
     audioSongs \in SongLists(RecPool, 1), audioScore \in AudioScores,
     userHistory \in SongLists({r \in RecPool : r.id = "r1"}, 1), limit \in {1, 3},
     excludePlayed \in BOOLEAN :
    GenerateRecommendations(1, genreSongs, artistSongs, Scored(audioSongs, audioScore),
                            userHistory, limit, excludePlayed)

SpecRecommendations == MatcherInit /\ [][RecommendationsNext]_vars

\* ------------------------------------------------------------ the song store

\* Audio features in tenths: 5 is the number 0.5.
Features(danceability, energy, valence) ==
  [danceability |-> danceability, energy |-> energy, valence |-> valence]

\* Rows of the song table. Row 2 is within 0.2 of row 1 in every feature, row 3
\* is not, row 4 has no features, row 5 is the platformId of row 1 on another
\* platform.
StorePool ==
  {[id |-> 1, title |-> <<"A", "b">>, artist |-> <<"x">>, duration |-> 183, genre |-> "pop",
    platform |-> "spotify", platformId |-> "k1", audioFeatures |-> Features(5, 5, 5)],
   [id |-> 2, title |-> <<"c">>, artist |-> <<"y">>, duration |-> 200, genre |-> "pop",
    platform |-> "spotify", platformId |-> "k2", audioFeatures |-> Features(7, 5, 3)],
   [id |-> 3, title |-> <<"b">>, artist |-> <<"x">>, duration |-> 540, genre |-> "pop",
    platform |-> "spotify", platformId |-> "k3", audioFeatures |-> Features(9, 5, 5)],
   [id |-> 4, title |-> <<"b", "c">>, artist |-> <<"y">>, duration |-> 0, genre |-> "pop",
    platform |-> "spotify", platformId |-> "k4"],
   [id |-> 5, title |-> <<"A", "b">>, artist |-> <<"x">>, duration |-> 183, genre |-> "pop",
    platform |-> "youtube", platformId |-> "k1", audioFeatures |-> Features(5, 5, 5)]}

\* songRepository.findById(id): the row in a sequence of at most one.
findById(id) == SelectSeq(songTable, LAMBDA row : row.id = id)

\* songRepository.findByPlatformId(platform, platformId)
findByPlatformId(platform, platformId) ==
  SelectSeq(songTable, LAMBDA row : row.platform = platform /\ row.platformId = platformId)

\* Array.prototype.reverse
Reverse(s) == [i \in 1..Len(s) |-> s[Len(s) + 1 - i]]

\* songRepository.findByGenre(genre, limit): the newest rows of the genre first.
findByGenre(genre, limit) ==
  Slice(Reverse(SelectSeq(songTable,
                          LAMBDA row : "genre" \in DOMAIN row /\ row.genre = genre)),
        limit)

\* const tolerance = 0.2
Tolerance == Divide(2, 10)

\* Math.abs(features.f - targetFeatures.f) <= tolerance
WithinTolerance(f, g) == AtMost(AbsDifference(Divide(f, 10), Divide(g, 10)), Tolerance)

\* filterByAudioFeatures
filterByAudioFeatures(songs, targetFeatures) ==
  SelectSeq(songs, LAMBDA song :
    IF "audioFeatures" \notin DOMAIN song THEN FALSE
    ELSE /\ WithinTolerance(song.audioFeatures.danceability, targetFeatures.danceability)
         /\ WithinTolerance(song.audioFeatures.energy, targetFeatures.energy)
         /\ WithinTolerance(song.audioFeatures.valence, targetFeatures.valence))

\* findSimilarSongs(songId, limit)
findSimilarSongs(songId, limit) ==
  IF findById(songId) = <<>> THEN [threw |-> TRUE, songs |-> <<>>]
  ELSE LET song == findById(songId)[1]
           byGenre == findByGenre(IF "genre" \in DOMAIN song THEN song.genre ELSE "",
                                  limit * 2)
           samePlatform == SelectSeq(byGenre, LAMBDA s : s.platform = song.platform)
           others == SelectSeq(samePlatform, LAMBDA s : s.id # songId)
           similarSongs == IF "audioFeatures" \in DOMAIN song
                           THEN filterByAudioFeatures(others, song.audioFeatures)
                           ELSE others
       IN  [threw |-> FALSE, songs |-> Slice(similarSongs, limit)]

\* A findSimilarSongs request.
FindSimilarSongs(c, songId, limit) ==
  /\ CanBegin(c)
  /\ LET r == findSimilarSongs(songId, limit)
     IN  calls' = [calls EXCEPT ![c] =
           [kind |-> "similar", pc |-> IF r.threw THEN "thrown" ELSE "returned",
            songId |-> songId, limit |-> limit, songs |-> r.songs]]
  /\ UNCHANGED <<playlists, conversions, externalPlaylists, localPlaylists, integrations, songTable>>

\* The songs addSongToDatabase is called with: a new pair, the pair of row 1
\* under another title, the platformId of row 1 on the third platform, and a
\* song of a new pair without a title.
AddedSongs ==
  {[title |-> <<"c">>, artist |-> <<"x">>, duration |-> 200,
    platform |-> "spotify", platformId |-> "k9"],
   [title |-> <<"A", "b", " ", "2">>, artist |-> <<"x">>, duration |-> 183,
    platform |-> "spotify", platformId |-> "k1"],
   [title |-> <<"A", "b">>, artist |-> <<"x">>, duration |-> 183,
    platform |-> "apple", platformId |-> "k1"],
   [title |-> <<" ">>, artist |-> <<"x">>, duration |-> 183,
    platform |-> "spotify", platformId |-> "k8"]}

\* validateSongData: the message of the error it throws, "" when it throws none.
validateSongData(song) ==
  IF IsBlank(song.title) THEN "Song title is required"
  ELSE IF IsBlank(song.artist) THEN "Song artist is required"
  ELSE IF song.platformId = "" THEN "Platform ID is required"
  ELSE IF song.duration < 0 THEN "Duration must be positive"
  ELSE ""

\* The unique key platform_platformId of the song table: prisma.song.create
\* of a pair the table holds is rejected.
UniqueViolation(song) == findByPlatformId(song.platform, song.platformId) # <<>>

\* The lookup by platformId alone.
AddSongLookupIgnoringPlatform(c, song) ==
  /\ CanBegin(c)
  /\ LET existingSong == SelectSeq(songTable, LAMBDA row : row.platformId = song.platformId)
         call == [kind |-> "addSong", pc |-> "create", song |-> song,
                  before |-> findByPlatformId(song.platform, song.platformId),
                  table |-> songTable]
     IN  calls' = [calls EXCEPT ![c] =
           IF existingSong # <<>>
           THEN [call EXCEPT !.pc = "returned"] @@ [result |-> existingSong[1]]
           ELSE call]
  /\ UNCHANGED <<playlists, conversions, externalPlaylists, localPlaylists, integrations, songTable>>

\* addSongToDatabase, the lookup: an existing song of the pair is returned.
AddSongLookup(c, song) ==
  /\ CanBegin(c)
  /\ LET existingSong == findByPlatformId(song.platform, song.platformId)
         call == [kind |-> "addSong", pc |-> "create", song |-> song,
                  before |-> findByPlatformId(song.platform, song.platformId),
                  table |-> songTable]
     IN  calls' = [calls EXCEPT ![c] =
           IF existingSong # <<>>
           THEN [call EXCEPT !.pc = "returned"] @@ [result |-> existingSong[1]]
           ELSE call]
  /\ UNCHANGED <<playlists, conversions, externalPlaylists, localPlaylists, integrations, songTable>>

\* addSongToDatabase after the lookup: validateSongData, then songRepository.create.
AddSongCreate(c) ==
  /\ calls[c].pc = "create"
  /\ calls[c].kind = "addSong"
  /\ LET song == calls[c].song
         row == [id |-> 1 + Cardinality(StorePool) + Len(songTable)] @@ song
     IN  IF validateSongData(song) # ""
         THEN /\ songTable' = songTable
              /\ calls' = [calls EXCEPT ![c] = [calls[c] EXCEPT !.pc = "thrown"] @@
                             [error |-> validateSongData(song)]]
         ELSE IF UniqueViolation(song)
         THEN /\ songTable' = songTable
              /\ calls' = [calls EXCEPT ![c] = [calls[c] EXCEPT !.pc = "thrown"] @@
                             [error |-> "Unique constraint failed"]]
         ELSE /\ songTable' = Append(songTable, row)
              /\ calls' = [calls EXCEPT ![c] = [calls[c] EXCEPT !.pc = "returned"] @@
                             [result |-> row]]
  /\ UNCHANGED <<playlists, conversions, externalPlaylists, localPlaylists, integrations>>

\* The stored rows: distinct pairs, in insertion order.
StoreInit ==
  /\ playlists = [p \in {"p1"} |-> PlaylistRow(p, "u1", <<>>)]
  /\ conversions = <<>>
  /\ externalPlaylists = <<>>
  /\ localPlaylists = <<>>
  /\ integrations = (<<"u1", "spotify">> :> "expired") @@ (<<"u1", "youtube">> :> "valid")
  /\ songTable \in SongLists(StorePool, MaxSongs)
  /\ calls = [c \in CallIds |-> IdleCall]

\* The findSimilarSongs requests; 0 is the id of no row.
SimilarNext ==
  \E songId \in {0} \union {row.id : row \in StorePool}, limit \in {1, 2} :
    FindSimilarSongs(1, songId, limit)

SpecSimilar == StoreInit /\ [][SimilarNext]_vars

SongsNext ==
  \E c \in CallIds :
    \/ \E song \in AddedSongs : AddSongLookup(c, song)
    \/ AddSongCreate(c)

SpecSongs == StoreInit /\ [][SongsNext]_vars

\* ------------------------------------------------------------------ claims

Duplicate == "Playlist already converted to this platform"

ConvertCalls == {c \in CallIds : calls[c].kind = "convert"}

\* The external playlists a call created.
CreatedBy(c) == {i \in 1..Len(externalPlaylists) : externalPlaylists[i].by = c}

IsOwner(c) ==
  /\ calls[c].playlistId \in DOMAIN playlists
  /\ playlists[calls[c].playlistId].userId = calls[c].userId

PassedCheck(p, t) ==
  {c \in ConvertCalls :
     /\ calls[c].playlistId = p
     /\ calls[c].targetPlatform = t
     /\ "seen" \in DOMAIN calls[c]
     /\ calls[c].error # Duplicate}

\* C2: for every (playlist, target) at most one call passes the idempotency
\* check, at most one external playlist is created and at most one row of the
\* conversion table is not FAILED.
C2_AtMostOnePerPair ==
  \A p \in PlaylistIds, t \in ConvertTargets :
    /\ Cardinality(PassedCheck(p, t)) <= 1
    /\ Cardinality({i \in 1..Len(externalPlaylists) :
                      /\ externalPlaylists[i].playlistId = p
                      /\ externalPlaylists[i].platform = t}) <= 1
    /\ Cardinality({i \in ConversionsFor(p, t) : conversions[i].status # "FAILED"}) <= 1

\* C3: convertPlaylist never ends with an exception.
C3_NeverThrows == \A c \in ConvertCalls : calls[c].pc # "thrown"

\* C4: a call that finds only FAILED rows for its pair at the idempotency check
\* is not rejected as a duplicate.
C4_FailedDoesNotBlock ==
  \A c \in ConvertCalls :
    ("seen" \in DOMAIN calls[c] /\ calls[c].seen = {"FAILED"}) => calls[c].error # Duplicate

CompletedRows == {i \in 1..Len(conversions) : conversions[i].status = "COMPLETED"}

\* C8: every COMPLETED row has matchedSongs + unmatchedSongs equal to the number
\* of songs of the source playlist and a conversionRate that is a number,
\* equal to matchedSongs / (matchedSongs + unmatchedSongs), in [0, 1].
C8_CompletedRowCounts ==
  \A i \in CompletedRows :
    LET row == conversions[i]
        total == row.matchedSongs + row.unmatchedSongs
    IN  /\ total = Len(playlists[row.originalPlaylistId].songs)
        /\ ~IsNaN(row.conversionRate)
        /\ row.conversionRate.num * total = row.matchedSongs * row.conversionRate.den
        /\ row.conversionRate.num >= 0
        /\ row.conversionRate.num <= row.conversionRate.den

\* Every query of the song's plan gets no result on the platform.
ZeroResults(song, platform) ==
  LET queries == generateSearchQueries(song)
  IN  \A q \in 1..Len(queries) :
        LET r == searchSongs(queries[q], platform, SearchLimit)
        IN  r.threw \/ r.songs = <<>>

\* Some query of the song's plan gets a candidate of positive confidence.
PositiveCandidate(song, platform) ==
  LET queries == generateSearchQueries(song)
  IN  \E q \in 1..Len(queries) :
        LET r == searchSongs(queries[q], platform, SearchLimit)
        IN  /\ ~r.threw
            /\ \E k \in 1..Len(r.songs) :
                 LET conf == calculateMatchConfidence(song, r.songs[k])
                 IN  ~conf.threw /\ Greater(conf.value, Zero)

\* C9: when every song of the playlist either gets no result at all or gets a
\* candidate of positive confidence, and k songs get no result, the COMPLETED
\* row of a conversion has matchedSongs = n - k, unmatchedSongs = k and
\* conversionRate = (n - k) / n, and the external playlist holds the track ids
\* of the n - k matched songs in playlist order.
C9_MatchedCounts ==
  \A i \in CompletedRows :
    LET row == conversions[i]
        c == row.by
        platform == calls[c].targetPlatform
        songs == SongsOf(playlists[row.originalPlaylistId])
        n == Len(songs)
        k == Cardinality({j \in 1..n : ZeroResults(songs[j], platform)})
    IN  (\A j \in 1..n : ZeroResults(songs[j], platform) \/ PositiveCandidate(songs[j], platform))
        => /\ row.matchedSongs = n - k
           /\ row.unmatchedSongs = k
           /\ n > 0 => row.conversionRate = Quot(n - k, n)
           /\ \A e \in CreatedBy(c) :
                externalPlaylists[e].tracks = MatchedSongIds(findEquivalentSongs(songs, platform))

AnalyzeCalls == {c \in CallIds : calls[c].kind = "analyze" /\ calls[c].pc = "returned"}

PreviewCalls == {c \in CallIds : calls[c].kind = "preview" /\ calls[c].pc = "returned"}

\* A song tagged classical, released in the 1960s and 9 minutes long.
ClassicalSixtiesNineMinutes(song) ==
  /\ Get(song, "genre") = <<Classical>>
  /\ Get(song, "year") # <<>>
  /\ song.year >= 1960
  /\ song.year <= 1969
  /\ song.duration = 540

\* C6: analyzeCompatibility of a playlist of classical, 1960s, 9-minute songs
\* for spotify returns a score below 0.3.
C6_ClassicalSixtiesScoresLow ==
  \A c \in AnalyzeCalls :
    LET songs == SongsOf(playlists[calls[c].playlistId])
    IN  (/\ calls[c].targetPlatform = "spotify"
         /\ Len(songs) > 0
         /\ \A i \in 1..Len(songs) : ClassicalSixtiesNineMinutes(songs[i]))
        => calls[c].compatibility.compatibility < LowCompatibilityThreshold

\* C7: the score analyzeCompatibility returns is in [0, 1] and estimatedMatches
\* is floor(songCount * score), between 0 and songCount.
C7_ScoreAndEstimateInRange ==
  \A c \in AnalyzeCalls :
    LET n == Len(playlists[calls[c].playlistId].songs)
        r == calls[c].compatibility
    IN  /\ r.compatibility >= 0
        /\ r.compatibility <= FullCompatibility
        /\ r.estimatedMatches = (n * r.compatibility) \div FullCompatibility
        /\ r.estimatedMatches >= 0
        /\ r.estimatedMatches <= n

\* An analysis of a playlist of two songs was penalised and estimated one match;
\* the analysis of the empty playlist and of a playlist without genre or year also ran.
C7_Witness ==
  \E c \in AnalyzeCalls :
    /\ Len(playlists[calls[c].playlistId].songs) = 2
    /\ calls[c].compatibility.compatibility < FullCompatibility
    /\ calls[c].compatibility.estimatedMatches = 1

\* C10: findEquivalentSongs returns one match per song, in the order of the
\* songs, and a song no query finds anything for is unmatched with confidence 0,
\* whatever the songs before it got.
C10_OneMatchPerSong ==
  \A c \in PreviewCalls :
    LET songs == SongsOf(playlists[calls[c].playlistId])
        matches == calls[c].songMatches
    IN  /\ Len(matches) = Len(songs)
        /\ \A i \in 1..Len(songs) :
             /\ matches[i].originalSong = songs[i]
             /\ ZeroResults(songs[i], calls[c].targetPlatform) =>
                  /\ "matchedSong" \notin DOMAIN matches[i]
                  /\ matches[i].confidence = Zero
                  /\ ~matches[i].isExactMatch
             /\ PositiveCandidate(songs[i], calls[c].targetPlatform) =>
                  "matchedSong" \in DOMAIN matches[i]

\* A preview whose first song found nothing and whose second song matched.
C10_Witness ==
  \E c \in PreviewCalls :
    /\ Len(calls[c].songMatches) = 2
    /\ "matchedSong" \notin DOMAIN calls[c].songMatches[1]
    /\ "matchedSong" \in DOMAIN calls[c].songMatches[2]

\* The queries of the song's plan whose search fails: searchSongs throws, or
\* the platform's search fails.
FailedQueries(song, platform) ==
  LET queries == generateSearchQueries(song)
  IN  {q \in 1..Len(queries) :
         \/ searchSongs(queries[q], platform, SearchLimit).threw
         \/ searchFails(platform, queries[q][1])}

\* The candidates searchSongs returns for the queries of the song's plan.
FoundCandidates(song, platform) ==
  LET queries == generateSearchQueries(song)
  IN  UNION {{searchSongs(queries[q], platform, SearchLimit).songs[k] :
                k \in 1..Len(searchSongs(queries[q], platform, SearchLimit).songs)} :
             q \in 1..Len(queries)}

\* The confidence of the match is that of its matchedSong, a candidate, and no
\* candidate has a higher one.
BestOfCandidates(match, song, platform) ==
  /\ \A candidate \in FoundCandidates(song, platform) :
       ~Less(match.confidence, calculateMatchConfidence(song, candidate).value)
  /\ "matchedSong" \in DOMAIN match =>
       /\ match.matchedSong \in FoundCandidates(song, platform)
       /\ calculateMatchConfidence(song, match.matchedSong).value = match.confidence

\* C11: when a query of a song's plan fails, findEquivalentSong still passes
\* every query of the plan to searchSongs, in order, and returns the best of
\* the candidates the other queries found, those before and those after the
\* failed query alike: a candidate of positive confidence gives a match.
C11_FailedQuerySkipped ==
  \A c \in PreviewCalls :
    \A i \in 1..Len(calls[c].songMatches) :
      LET song == playlists[calls[c].playlistId].songs[i].song
          platform == calls[c].targetPlatform
          match == calls[c].songMatches[i]
      IN  FailedQueries(song, platform) # {} =>
            /\ calls[c].issued[i] = generateSearchQueries(song)
            /\ BestOfCandidates(match, song, platform)
            /\ (\E candidate \in FoundCandidates(song, platform) :
                   Greater(calculateMatchConfidence(song, candidate).value, Zero))
                 => "matchedSong" \in DOMAIN match

\* SongThree, whose second query fails on apple, was matched on apple with the
\* track its third query found.
C11_Witness ==
  \E c \in PreviewCalls :
    \E i \in 1..Len(calls[c].songMatches) :
      /\ calls[c].songMatches[i].originalSong = SongThree
      /\ FailedQueries(SongThree, "apple") = {2}
      /\ calls[c].targetPlatform = "apple"
      /\ calls[c].issued[i] = generateSearchQueries(SongThree)
      /\ "matchedSong" \in DOMAIN calls[c].songMatches[i]
      /\ calls[c].songMatches[i].matchedSong.platformId = "ap-bc"
      /\ \A q \in {1, 2} :
           LET found == searchInPlatform(generateSearchQueries(SongThree)[q][1], "apple")
           IN  \A k \in 1..Len(found) : found[k].platformId # "ap-bc"

\* C12: findEquivalentSong passes every query of the plan to searchSongs, the
\* confidence it returns is the highest calculateMatchConfidence of the
\* candidates of all the queries, and when there is a candidate matchedSong is
\* a candidate of that confidence.
C12_BestOfAllQueries ==
  \A c \in PreviewCalls :
    \A i \in 1..Len(calls[c].songMatches) :
      LET song == playlists[calls[c].playlistId].songs[i].song
          platform == calls[c].targetPlatform
          match == calls[c].songMatches[i]
      IN  /\ calls[c].issued[i] = generateSearchQueries(song)
          /\ BestOfCandidates(match, song, platform)
          /\ FoundCandidates(song, platform) # {} => "matchedSong" \in DOMAIN match

\* C13: every SongMatch has isExactMatch = (confidence > 0.8).
C13_ExactIffAboveThreshold ==
  \A c \in PreviewCalls :
    \A i \in 1..Len(calls[c].songMatches) :
      calls[c].songMatches[i].isExactMatch
        <=> Greater(calls[c].songMatches[i].confidence, Divide(8, 10))

\* A preview returned an exact match and a match that is not exact.
C13_Witness ==
  \E c \in PreviewCalls :
    /\ Len(calls[c].songMatches) = 2
    /\ calls[c].songMatches[1].isExactMatch
    /\ "matchedSong" \in DOMAIN calls[c].songMatches[2]
    /\ ~calls[c].songMatches[2].isExactMatch

\* A candidate with the title, the artist and the duration of the source song.
IsIdentical(song, candidate) ==
  /\ candidate.title = song.title
  /\ candidate.artist = song.artist
  /\ candidate.duration = song.duration

\* A candidate of the same artist with a longer title and another duration.
IsLongerVersion(song, candidate) ==
  /\ candidate.artist = song.artist
  /\ Len(candidate.title) > Len(song.title)
  /\ candidate.duration # song.duration

\* C16, the scenario of the twin and the remastered version: when the candidates of a song include one identical to it in title,
\* artist and duration and a version with a longer title and another
\* duration, in either order, findEquivalentSong returns the identical
\* candidate with a confidence of at least 0.9.
C16_IdenticalCandidateChosen ==
  \A c \in PreviewCalls :
    \A i \in 1..Len(calls[c].songMatches) :
      LET song == playlists[calls[c].playlistId].songs[i].song
          found == FoundCandidates(song, calls[c].targetPlatform)
          match == calls[c].songMatches[i]
      IN  (/\ \E candidate \in found : IsIdentical(song, candidate)
           /\ \E candidate \in found : IsLongerVersion(song, candidate))
          => /\ "matchedSong" \in DOMAIN match
             /\ IsIdentical(song, match.matchedSong)
             /\ ~match.confidence.nan
             /\ ~Less(match.confidence, Divide(9, 10))

ConfidenceCalls == {c \in CallIds : calls[c].kind = "confidence" /\ calls[c].pc = "returned"}

SimilarityCalls == {c \in CallIds : calls[c].kind = "similarity"}

QueriesCalls == {c \in CallIds : calls[c].kind = "queries"}

\* 0.4 * titleSim + 0.3 * artistSim + 0.2 * durationSim, plus 0.1 * yearSim
\* when both years are known, for a source song of non-zero duration.
WeightedSimilarities(original, candidate) ==
  LET titleSim == calculateStringSimilarity(ToLowerCase(original.title),
                                            ToLowerCase(candidate.title))
      artistSim == calculateStringSimilarity(ToLowerCase(original.artist),
                                             ToLowerCase(candidate.artist))
      durationSim == OneMinusOrZero(Divide(Abs(original.duration - candidate.duration),
                                           original.duration))
      sum == Add(Add(Multiply(Divide(4, 10), titleSim), Multiply(Divide(3, 10), artistSim)),
                 Multiply(Divide(2, 10), durationSim))
  IN  IF "year" \in DOMAIN original /\ "year" \in DOMAIN candidate
      THEN Add(sum, Multiply(Divide(1, 10),
                 OneMinusOrZero(Divide(Abs(original.year - candidate.year), 10))))
      ELSE sum

\* C14: calculateMatchConfidence returns a number in [0, 1], never NaN, also
\* for a source song of duration 0, and for a source song of non-zero
\* duration the weighted sum of the similarities.
C14_ConfidenceDefined ==
  \A c \in ConfidenceCalls :
    /\ ~calls[c].confidence.nan
    /\ ~Less(Whole(1), calls[c].confidence)
    /\ calls[c].original.duration # 0 =>
         calls[c].confidence = MinOne(WeightedSimilarities(calls[c].original, calls[c].candidate))

\* C15: the confidence of the candidate with its title replaced by the source
\* title is greater than or equal to the confidence of the candidate.
C15_MonotonicInTitle ==
  \A c \in ConfidenceCalls :
    LET withTitle == [calls[c].candidate EXCEPT !.title = calls[c].original.title]
        replaced == calculateMatchConfidence(calls[c].original, withTitle).value
    IN  /\ ~replaced.nan
        /\ ~calls[c].confidence.nan
        /\ ~Less(replaced, calls[c].confidence)

\* C17: calculateStringSimilarity(a, b) = calculateStringSimilarity(b, a).
C17_SimilaritySymmetric ==
  \A c \in SimilarityCalls :
    calls[c].similarity = calculateStringSimilarity(calls[c].str2, calls[c].str1)

\* Two different strings of the same length with a similarity between 0 and 1.
C17_Witness ==
  \E c \in SimilarityCalls :
    /\ Len(calls[c].str1) = Len(calls[c].str2)
    /\ calls[c].str1 # calls[c].str2
    /\ Greater(calls[c].similarity, Zero)
    /\ Less(calls[c].similarity, Whole(1))

\* The edit distance by its recursive definition.
RECURSIVE EditDistance(_, _)
EditDistance(a, b) ==
  IF a = <<>> THEN Len(b)
  ELSE IF b = <<>> THEN Len(a)
  ELSE Min3(EditDistance(Tail(a), b) + 1,
            EditDistance(a, Tail(b)) + 1,
            EditDistance(Tail(a), Tail(b)) + (IF Head(a) = Head(b) THEN 0 ELSE 1))

\* C18: calculateStringSimilarity(a, b) is (maxLen - editDistance(a, b)) / maxLen,
\* a number in [0, 1], and is 1 when a = b, the empty strings included.
C18_SimilarityValue ==
  \A c \in SimilarityCalls :
    LET a == calls[c].str1
        b == calls[c].str2
        maxLen == Max2(Len(a), Len(b))
    IN  /\ ~calls[c].similarity.nan
        /\ ~Less(Whole(1), calls[c].similarity)
        /\ maxLen > 0 => calls[c].similarity = Divide(maxLen - EditDistance(a, b), maxLen)
        /\ a = b => calls[c].similarity = Whole(1)

\* The similarity of the empty string to itself was computed, and is 1.
C18_Witness ==
  \E c \in SimilarityCalls :
    /\ calls[c].str1 = <<>>
    /\ calls[c].str2 = <<>>
    /\ calls[c].similarity = Whole(1)

\* C19: generateSearchQueries returns, in this order, the quoted artist and
\* title, the plain artist and title, the artist and album when the song has
\* a (non-empty) album, the title and the artist: 5 queries with an album,
\* 4 without, never none.
C19_QueryPlan ==
  \A c \in QueriesCalls :
    LET song == calls[c].song
        hasAlbum == "album" \in DOMAIN song /\ song.album # <<>>
        quoted == <<"\"">> \o song.artist \o <<"\"", " ", "\"">> \o song.title \o <<"\"">>
        plain == song.artist \o <<" ">> \o song.title
    IN  /\ Len(calls[c].queries) = IF hasAlbum THEN 5 ELSE 4
        /\ calls[c].queries =
             IF hasAlbum
             THEN << <<quoted>>, <<plain>>, <<song.artist \o <<" ">> \o song.album>>,
                     <<song.title>>, <<song.artist>> >>
             ELSE << <<quoted>>, <<plain>>, <<song.title>>, <<song.artist>> >>

\* The plan of a song with an album was generated: 5 queries, the third one
\* for the artist and the album.
C19_Witness ==
  \E c \in QueriesCalls :
    /\ "album" \in DOMAIN calls[c].song
    /\ calls[c].song.album # <<>>
    /\ Len(calls[c].queries) = 5
    /\ calls[c].queries[3] = <<calls[c].song.artist \o <<" ">> \o calls[c].song.album>>

NoToken == "No access token available"

\* C20: a convertPlaylist call that gets no access token for the target
\* platform ends by returning a failed result that carries the credential
\* error, never by an exception, and creates no playlist and adds no tracks
\* on the external platform.
C20_NoTokenFailsCleanly ==
  \A c \in ConvertCalls :
    calls[c].error = NoToken =>
      /\ calls[c].pc \in {"catch", "returned"}
      /\ calls[c].pc = "returned" =>
           /\ ~calls[c].result.success
           /\ calls[c].result.errors = <<NoToken>>
      /\ CreatedBy(c) = {}

\* The status changes the state machine of a conversion record allows.
AllowedStatusChange(from, to) ==
  \/ from = to
  \/ from = "PENDING" /\ to = "PROCESSING"
  \/ from = "PROCESSING" /\ to \in {"COMPLETED", "FAILED"}

\* C21: every conversion record is created as pending, changes status only
\* along pending -> processing -> completed | failed, so it reaches completed
\* only from processing, and keeps its status once completed or failed.
C21_StatusStateMachine ==
  [][\A i \in 1..Len(conversions') :
       IF i > Len(conversions)
       THEN conversions'[i].status = "PENDING"
       ELSE AllowedStatusChange(conversions[i].status, conversions'[i].status)]_vars

\* C22: convertPlaylist creates the playlist on the external platform only
\* when at least one song of the playlist matched.
C22_CreateOnlyWhenMatched ==
  \A e \in 1..Len(externalPlaylists) :
    MatchedOf(calls[externalPlaylists[e].by].songMatches) # <<>>

RecommendCalls == {c \in CallIds : calls[c].kind = "recommend"}

\* The two songs have the same title and artist after lower-casing.
SameSong(a, b) ==
  /\ ToLowerCase(a.title) = ToLowerCase(b.title)
  /\ ToLowerCase(a.artist) = ToLowerCase(b.artist)

\* The candidates the deduplication of a request sees.
CandidatePool(c) ==
  IF calls[c].excludePlayed
  THEN SelectSeq(calls[c].pushed,
                 LAMBDA rec : \A h \in 1..Len(calls[c].userHistory) :
                                calls[c].userHistory[h].id # rec.id)
  ELSE calls[c].pushed

\* C23: the list generateRecommendations returns holds no two songs whose
\* title and artist are equal after lower-casing, and each of its songs is the
\* first of the candidate pool with that lower-cased title and artist.
C23_NoDuplicateRecommendations ==
  \A c \in RecommendCalls :
    LET songs == calls[c].songs
        pool == CandidatePool(c)
    IN  /\ \A i, j \in 1..Len(songs) : i < j => ~SameSong(songs[i], songs[j])
        /\ \A i \in 1..Len(songs) :
             \E k \in 1..Len(pool) :
               /\ pool[k] = songs[i]
               /\ \A j \in 1..(k - 1) : ~SameSong(pool[j], pool[k])

\* C24: once the caller has asked for the cancellation of a conversion that is
\* under way, no per-song match is started for it any more, and it ends with a
\* FAILED record and a failed result whose reason is Cancelled, never with a
\* COMPLETED record.
C24_CancelledEndsFailed ==
  \A c \in ConvertCalls :
    "cancelledAt" \in DOMAIN calls[c] =>
      /\ calls[c].cancelledAt \in {"analyze", "match"} => "songMatches" \notin DOMAIN calls[c]
      /\ \A i \in 1..Len(conversions) :
           conversions[i].by = c =>
             conversions[i].status = "FAILED" /\ conversions[i].errors = <<"Cancelled">>
      /\ calls[c].pc = "returned" =>
           ~calls[c].result.success /\ calls[c].result.errors = <<"Cancelled">>

\* C25: findEquivalentSong returns a matchedSong exactly when some candidate of
\* its queries scored a confidence above 0; without such a candidate it
\* returns, as a value, a match without matchedSong, with confidence 0 and
\* isExactMatch false.
C25_MatchedIffPositive ==
  \A c \in CallIds :
    (calls[c].kind = "preview" /\ calls[c].playlistId \in DOMAIN playlists) =>
      /\ calls[c].pc = "returned"
      /\ \A i \in 1..Len(calls[c].songMatches) :
           LET song == playlists[calls[c].playlistId].songs[i].song
               match == calls[c].songMatches[i]
               positive == PositiveCandidate(song, calls[c].targetPlatform)
           IN  /\ ("matchedSong" \in DOMAIN match) <=> positive
               /\ ~positive => match.confidence = Zero /\ ~match.isExactMatch

\* One preview returned a song without any candidate and a song whose only
\* candidates have confidence 0, both unmatched.
C25_Witness ==
  \E c \in PreviewCalls :
    \E i, j \in 1..Len(calls[c].songMatches) :
      LET platform == calls[c].targetPlatform
          song(k) == playlists[calls[c].playlistId].songs[k].song
      IN  /\ ZeroResults(song(i), platform)
          /\ "matchedSong" \notin DOMAIN calls[c].songMatches[i]
          /\ ~ZeroResults(song(j), platform)
          /\ ~PositiveCandidate(song(j), platform)
          /\ "matchedSong" \notin DOMAIN calls[c].songMatches[j]
          /\ calls[c].songMatches[j].confidence = Zero

SimilarCalls == {c \in CallIds : calls[c].kind = "similar" /\ calls[c].pc = "returned"}

\* C26: every song findSimilarSongs returns has audio features, as the
\* reference song has, and differs from the reference song by at most 0.2 in
\* danceability, in energy and in valence.
C26_ToleranceMode ==
  \A c \in SimilarCalls :
    LET reference == findById(calls[c].songId)[1]
    IN  \A k \in 1..Len(calls[c].songs) :
          LET candidate == calls[c].songs[k]
          IN  /\ "audioFeatures" \in DOMAIN reference
              /\ "audioFeatures" \in DOMAIN candidate
              /\ \A f \in {"danceability", "energy", "valence"} :
                   Abs(candidate.audioFeatures[f] - reference.audioFeatures[f]) <= 2

AddSongCalls == {c \in CallIds : calls[c].kind = "addSong"}

MatchedCalls == {c \in ConvertCalls : "songMatches" \in DOMAIN calls[c]}

\* C28: the per-song matches a conversion computes are those previewConversion
\* computes for the same playlist, target and catalog, namely
\* findEquivalentSongs of the playlist's songs: a song is matched in the one
\* exactly when it is matched in the other, and to the same track.
C28_ConversionMatchesAsPreview ==
  \A c \in MatchedCalls :
    LET preview == findEquivalentSongs(SongsOf(playlists[calls[c].playlistId]),
                                       calls[c].targetPlatform)
    IN  /\ Len(calls[c].songMatches) = Len(preview)
        /\ \A j \in 1..Len(preview) :
             /\ "matchedSong" \in DOMAIN calls[c].songMatches[j]
                  <=> "matchedSong" \in DOMAIN preview[j]
             /\ "matchedSong" \in DOMAIN preview[j] =>
                  calls[c].songMatches[j].matchedSong = preview[j].matchedSong

\* The rows of the conversion table a call stored, by status.
StoredBy(c, status) ==
  {i \in 1..Len(conversions) : conversions[i].by = c /\ conversions[i].status = status}

\* C29: a conversion that has returned has success = true exactly when it
\* stored a COMPLETED row; no call stores both a COMPLETED and a FAILED row;
\* and a call that returned success = false has created no playlist on the
\* external platform.
C29_OutcomeConsistent ==
  \A c \in ConvertCalls :
    /\ ~(StoredBy(c, "COMPLETED") # {} /\ StoredBy(c, "FAILED") # {})
    /\ calls[c].pc = "returned" =>
         /\ calls[c].result.success <=> StoredBy(c, "COMPLETED") # {}
         /\ ~calls[c].result.success => CreatedBy(c) = {}

\* C30: a conversion rejected as a duplicate stores no row in the conversion table.
C30_DuplicateWritesNothing ==
  \A c \in ConvertCalls :
    calls[c].error = Duplicate =>
      \A i \in 1..Len(conversions) : conversions[i].by # c

====
